---- MODULE Spec2Model ----
(***************************************************************************)
(* A model of the pizza-shop order pipeline: the broker queue, the         *)
(* consumer's dispatch loop, one processing goroutine per delivery         *)
(* (MessageProcessor.ProcessMessage and the handlers it calls), the        *)
(* publisher and the connection managers with every wait on the broker as  *)
(* a step of its own, the order boundary, and the WebSocket handler with   *)
(* the connection map it shares with the processor.                        *)
(***************************************************************************)
EXTENDS Integers, Sequences, FiniteSets, TLC

\* ------------------------------------------------------------------ bounds

\* Messages in the kitchen queue when the consumer starts, at most.
MaxOrders == 1
\* Deliveries the broker hands to the consumer in one run (redeliveries included).
MaxDeliveries == 3
\* Direct calls of the public functions of the services (PublisherSpec).
MaxCalls == 2
\* POST requests to the order boundary in one run.
MaxRequests == 1
\* Transport connections dialled in one run, the two of the startup included.
MaxTransports == 4
\* WebSocket clients that connect in one run.
MaxClients == 2
\* Failures of the environment in one run: a fallible operation that fails,
\* a connection that is lost, a stream that closes, a client that goes away.
MaxFailures == 1

\* --------------------------------------------------------------- constants

\* package constants (not among the sources): the order_status enumeration.
ORDER_ORDERED == "ORDERED"
ORDER_PREPARING == "PREPARING"
ORDER_PREPARED == "PREPARED"
ORDER_DELIVERED == "DELIVERED"
ORDER_CANCELLED == "CANCELLED"
ORDER_PREPARED_SUCCESSFULLY == "ORDER_PREPARED_SUCCESSFULLY"
KITCHEN_ORDER_QUEUE == "KITCHEN_ORDER_QUEUE"

\* The hardcoded client identity of HandleConnection and broadcastToWebSocket.
PizzaId == "pizza"

Nil == 0
Conns == 1..MaxClients

\* The holder of a connection's mutex when it is no delivery: a caller of
\* ReceivedMessage.
Reader == -1

\* ------------------------------------------------------------ Go maps, JSON

\* m[k] of a Go map: the zero value when the key is absent.
MapGet(m, k) == IF k \in DOMAIN m THEN m[k] ELSE Nil

\* m[k] = v of a Go map.
MapSet(m, k, v) == [x \in (DOMAIN m) \cup {k} |-> IF x = k THEN v ELSE m[x]]

EmptyMap == [x \in {} |-> Nil]

\* The order_status values a body may carry: the enumeration and a foreign one.
StatusValues ==
    {ORDER_ORDERED, ORDER_PREPARING, ORDER_PREPARED, ORDER_DELIVERED,
     ORDER_CANCELLED, "BOGUS"}

\* JSON objects of the wire: order_no is free-form, order_status may be absent.
Objects ==
    {EmptyMap, [x \in {"order_no"} |-> 42]}
    \cup {MapSet([x \in {"order_no"} |-> 42], "order_status", s) : s \in StatusValues}

\* The order event {"order_no": 42, "order_status": "ORDERED"}.
OrderedEvent == MapSet([x \in {"order_no"} |-> 42], "order_status", ORDER_ORDERED)

\* Message bodies: text that is no JSON, JSON that is no object (an array),
\* the JSON null, and JSON objects.
Bodies ==
    {[kind |-> "invalid"], [kind |-> "array"], [kind |-> "null"]}
    \cup {[kind |-> "object", obj |-> o] : o \in Objects}

\* json.Unmarshal(body, &event) with event a map[string]interface{}: a syntax
\* error for text that is no JSON, a type error for a JSON value that is no
\* object, a nil map and no error for null, the decoded map otherwise.
Unmarshal(body) ==
    CASE body.kind = "object" -> [err |-> FALSE, event |-> body.obj]
      [] body.kind = "null"   -> [err |-> FALSE, event |-> EmptyMap]
      [] OTHER                -> [err |-> TRUE,  event |-> EmptyMap]

\* json.Marshal of a map: a JSON object with the map's entries.
Marshal(m) == [kind |-> "object", obj |-> m]

\* A Go value passed as `body any`: a map, or a value of a type that
\* encoding/json does not support (a func or a chan).
GoMap(m) == [go |-> "map", val |-> m]

\* Whether json.Marshal(v) succeeds: it returns an UnsupportedTypeError for a
\* func or a chan, and serializes every map decoded from JSON.
Marshals(v) == v.go = "map"

\* The greeting frame HandleConnection writes on a new connection.
Greeting ==
    [kind |-> "text",
     text |-> "Connection Established: Started taking order updates..."]

\* ------------------------------------------------------------------- utils

\* utils.GenerateRandomDuration(max, min) with r the source of rand.Intn:
\* panics when min > max; otherwise the duration is computed from the draw
\* rand.Intn(max - min + 1), a number in 0..max-min. The draw is multiplied by
\* int(time.Second) and the product, taken as a Duration, by time.Second
\* again: the result is draw * 10^18 ns, given here as coef * 10^exp10
\* seconds, and it wraps around the 64-bit Duration when draw * 10^18 exceeds
\* 2^63 - 1, that is from a draw of 10 on. min is not added to the draw.
GenerateRandomDuration(max, min, r) ==
    IF min > max THEN [panic |-> TRUE, draw |-> 0, coef |-> 0, exp10 |-> 0,
                       wraps |-> FALSE]
    ELSE [panic |-> FALSE, draw |-> r % (max - min + 1),
          coef |-> r % (max - min + 1), exp10 |-> 9,
          wraps |-> (r % (max - min + 1)) > 9]

\* The draws of rand.Intn the model enumerates.
Draws == 0..1

\* ------------------------------------------------------------------- state

VARIABLES
    failures,   \* the failures of the environment so far
    proc,       \* "running" | "crashed" (an unrecovered panic or fatal error)
    consumer,   \* ConsumeEventAndProcess: "start" | "consuming" | "closed"
                \* (blocked, its stream closed) | "returned" | "panicked"
    brokerOps,  \* the operations the consumer issued on its channel, in order
    queue,      \* the kitchen queue: bodies ready for delivery, head first
    dlv,        \* the deliveries handed out so far, by delivery tag
    pubLog,     \* the bodies the processor published, in order
    registry,   \* the connection map shared by handler and processor
    hmutex,     \* WebSocketHandler.mutex: the handler holding it, or Nil
    mpmutex,    \* MessageProcessor.mutex: the delivery holding it, or Nil
    wsmutex,    \* WebSocketConnection.mutex of each connection
    hpc,        \* HandleConnection of each client: its position
    wsclosed,   \* the client connections on which conn.Close() was called
    wire,       \* the frames written to each connection, in order
    channels,   \* the number of channels opened by GetChannel and not closed
    requests,   \* the POST requests CreateOrder handled or is handling
    calls,      \* the direct calls of public functions of the services
    transports, \* the transport connections dialled so far: "open" | "closed"
    manager,    \* r.conn of the publisher's and of the consumer's manager
    gc          \* each caller's position inside the connection manager
                \* and the publisher

vars ==
    <<failures, proc, consumer, brokerOps, queue, dlv, pubLog, registry,
      hmutex, mpmutex, wsmutex, hpc, wsclosed, wire, channels, requests,
      calls, transports, manager, gc>>

Tags == 1..Len(dlv)

\* No failure of the environment has happened so far.
NoFailure == failures = 0

\* The outcomes of one fallible operation: it succeeds, or, while the run
\* has failures left, it fails.
Outcomes == IF failures < MaxFailures THEN {TRUE, FALSE} ELSE {TRUE}

\* The outcomes of an operation that can succeed only when `possible` holds
\* (the transport it needs is open).
Attempt(possible) == IF possible THEN Outcomes ELSE {FALSE}

\* The failures of the environment after an operation that could succeed and
\* ended with `ok`.
Spent(ok) == IF ok THEN failures ELSE failures + 1

\* config.GetNewRabbitMQConnection with ts the transports dialled before:
\* amqp091.Dial establishes one more transport, and the new manager holds it.
\* (A failed dial panics; the process does not start.)
GetNewRabbitMQConnection(ts) == [transports |-> Append(ts, "open"), conn |-> Len(ts) + 1]

\* service.GetMessagePublisher: the publisher gets a manager of its own.
GetMessagePublisher(ts) == GetNewRabbitMQConnection(ts)

\* service.GetMessageConsumerService: the consumer gets a manager of its own.
GetMessageConsumerService(ts) == GetNewRabbitMQConnection(ts)

\* The service initialization of main: the publisher, then the consumer.
Startup ==
    [transports |-> GetMessageConsumerService(GetMessagePublisher(<<>>).transports).transports,
     publisher |-> GetMessagePublisher(<<>>).conn,
     consumer |-> GetMessageConsumerService(GetMessagePublisher(<<>>).transports).conn]

\* The callers of GetChannel: the goroutine of a delivery and the handler of
\* a request (through PublishEvent), the consumer, and a direct call.
Worker(d) == <<"worker", d>>
Request(q) == <<"request", q>>
Call(i) == <<"call", i>>
Consumer == <<"consumer", 0>>

Callers ==
    {Worker(d) : d \in 1..MaxDeliveries} \cup {Request(q) : q \in 1..MaxRequests}
    \cup {Call(i) : i \in 1..MaxCalls} \cup {Consumer}

\* The manager a caller goes through: mcs.conf for the consumer, mp.conf for
\* every caller of the publisher, and for a direct call the manager of the
\* service it was made on.
ManagerOf(c) ==
    CASE c = Consumer  -> "consumer"
      [] c[1] = "call" -> calls[c[2]].on
      [] OTHER         -> "publisher"

\* A caller that is inside no function of the manager or the publisher.
Idle == [pc |-> "idle", conn |-> Nil, chan |-> Nil, attempts |-> 0]

\* A fresh delivery of `body`.
NewDelivery(body) ==
    [body |-> body, pc |-> "process", event |-> EmptyMap, stage |-> "none",
     decodeErr |-> FALSE, actErr |-> FALSE, acks |-> 0, nacks |-> 0,
     ret |-> "none", pub |-> "none", socket |-> Nil, data |-> EmptyMap,
     sent |-> "none", died |-> "no", revoked |-> FALSE]

Init ==
    /\ failures = 0
    /\ proc = "running"
    /\ consumer = "start"
    /\ brokerOps = <<>>
    /\ queue \in UNION {[1..n -> Bodies] : n \in 0..MaxOrders}
    /\ dlv = <<>>
    /\ pubLog = <<>>
    /\ registry = EmptyMap
    /\ hmutex = Nil
    /\ mpmutex = Nil
    /\ wsmutex = [c \in Conns |-> Nil]
    /\ hpc = [c \in Conns |-> "idle"]
    /\ wsclosed = {}
    /\ wire = [c \in Conns |-> <<>>]
    /\ channels = 0
    /\ requests = <<>>
    /\ calls = <<>>
    /\ transports = Startup.transports
    /\ manager = [publisher |-> Startup.publisher, consumer |-> Startup.consumer]
    /\ gc = [c \in Callers |-> Idle]

\* ---------------------------------------------------- connection manager

\* GetChannel on manager m up to its first wait: the test
\* `r.conn == nil || r.conn.IsClosed()` sends the caller to Connect when the
\* transport is closed and to r.conn.Channel() otherwise. No lock is held.
GetChannelEnter(m) ==
    [Idle EXCEPT !.pc = IF transports[manager[m]] = "closed"
                        THEN "connect" ELSE "channel"]

\* MessageConsumerService.DeclareQueue and MessagePublisher.DeclareQueue (the
\* same statements on mcs.conf and on mp.conf) after GetChannel returned
\* `chan`: without a channel nothing is issued and an error is returned;
\* otherwise QueueDeclare is issued and its error returned. The channel is
\* not closed. Nothing in the program calls either function.
DeclareQueue(ops, queueName, chan, declared) ==
    IF chan = Nil
    THEN [ops |-> ops, res |-> "err", why |-> "nil channel"]
    ELSE [ops |-> Append(ops, <<"QueueDeclare", queueName>>),
          res |-> IF declared THEN "nil" ELSE "err",
          why |-> IF declared THEN "no" ELSE "declare"]

\* ---------------------------------------------------------------- consumer

\* Delivery record r is outstanding at the broker: handed out on the
\* consumer's channel, acknowledged neither way, and not taken back.
Unacked(r) == r.acks + r.nacks = 0 /\ ~r.revoked

\* The deliveries after the consumer's channel went away: the broker takes
\* every outstanding delivery back, and an Ack or a Nack that a goroutine
\* still sends for it fails (the error is not looked at).
TakeBack(ds) ==
    [d \in 1..Len(ds) |-> IF Unacked(ds[d]) THEN [ds[d] EXCEPT !.revoked = TRUE]
                          ELSE ds[d]]

\* The bodies of the outstanding deliveries, which the broker puts back into
\* the queue when it takes the deliveries back, oldest first.
TakenBack(ds) ==
    [i \in 1..Len(SelectSeq(ds, Unacked)) |-> SelectSeq(ds, Unacked)[i].body]

\* Transport t goes away, lost or closed. When the consumer's subscription
\* runs on it, the delivery stream closes, so that `for msg := range msgs`
\* ends, and the broker takes back the outstanding deliveries.
TransportGone(t) ==
    /\ transports' = [transports EXCEPT ![t] = "closed"]
    /\ IF consumer \in {"consuming", "closed"} /\ gc[Consumer].chan = t
       THEN /\ consumer' = "closed"
            /\ dlv' = TakeBack(dlv)
            /\ queue' = TakenBack(dlv) \o queue
       ELSE UNCHANGED <<consumer, dlv, queue>>

\* ConsumeEventAndProcess is entered: it calls GetChannel on the consumer's
\* manager.
ConsumeEventAndProcess ==
    /\ proc = "running"
    /\ consumer = "start"
    /\ gc[Consumer].pc = "idle"
    /\ gc' = [gc EXCEPT ![Consumer] = GetChannelEnter("consumer")]
    /\ UNCHANGED <<transports, manager, requests, calls, channels, wsclosed,
                   failures, proc, consumer, brokerOps, queue, dlv, pubLog,
                   registry, hmutex, mpmutex, wsmutex, hpc, wire>>

\* ConsumeEventAndProcess after GetChannel returned: without a channel it
\* returns an error; otherwise channel.Consume is issued, and the function
\* returns an error when the subscription fails and goes on to its dispatch
\* loop when it succeeds.
Consume ==
    /\ proc = "running"
    /\ consumer = "start"
    /\ gc[Consumer].pc = "done"
    /\ IF gc[Consumer].chan = Nil
       THEN /\ consumer' = "returned"
            /\ brokerOps' = brokerOps
            /\ failures' = failures
       ELSE /\ brokerOps' = Append(brokerOps, <<"Consume", KITCHEN_ORDER_QUEUE>>)
            /\ \E subscribed \in Attempt(transports[gc[Consumer].chan] = "open") :
                  /\ consumer' = IF subscribed THEN "consuming" ELSE "returned"
                  /\ failures' = IF transports[gc[Consumer].chan] = "open"
                                 THEN Spent(subscribed) ELSE failures
    /\ UNCHANGED <<transports, manager, gc, requests, calls, channels,
                   wsclosed, proc, queue, dlv, pubLog, registry, hmutex,
                   mpmutex, wsmutex, hpc, wire>>

\* A dispatch loop that processes one delivery at a time: it takes the next
\* one when the processing of the previous one has returned.
DispatchWaits ==
    /\ proc = "running"
    /\ consumer = "consuming"
    /\ queue # <<>>
    /\ Len(dlv) < MaxDeliveries
    /\ \A d \in Tags : dlv[d].pc = "done"
    /\ dlv' = Append(dlv, NewDelivery(Head(queue)))
    /\ queue' = Tail(queue)
    /\ UNCHANGED <<transports, manager, gc, requests, calls, channels,
                   wsclosed, failures, proc, consumer, brokerOps, pubLog,
                   registry, hmutex, mpmutex, wsmutex, hpc, wire>>

\* One turn of the dispatch loop: receive the next delivery and start a
\* goroutine for it.
Dispatch ==
    /\ proc = "running"
    /\ consumer = "consuming"
    /\ queue # <<>>
    /\ Len(dlv) < MaxDeliveries
    /\ dlv' = Append(dlv, NewDelivery(Head(queue)))
    /\ queue' = Tail(queue)
    /\ UNCHANGED <<transports, manager, gc, requests, calls, channels,
                   wsclosed, failures, proc, consumer, brokerOps, pubLog,
                   registry, hmutex, mpmutex, wsmutex, hpc, wire>>

\* A consumer that subscribes again when its delivery stream closes.
DeliveryStreamClosedResubscribes ==
    /\ proc = "running"
    /\ failures < MaxFailures
    /\ consumer = "consuming"
    /\ consumer' = "start"
    /\ failures' = failures + 1
    /\ UNCHANGED <<transports, manager, gc, requests, calls, channels,
                   wsclosed, proc, brokerOps, queue, dlv, pubLog, registry,
                   hmutex, mpmutex, wsmutex, hpc, wire>>

\* The delivery stream returned by Consume closes while the connection stays
\* up: the broker cancels the consumer, or it closes the consumer's channel
\* and takes the outstanding deliveries back. `for msg := range msgs` ends
\* and with it the dispatching goroutine, while ConsumeEventAndProcess stays
\* blocked in `select {}`. (The loss of the connection is ConnectionLost.)
DeliveryStreamClosed ==
    /\ proc = "running"
    /\ failures < MaxFailures
    /\ consumer = "consuming"
    /\ consumer' = "closed"
    /\ failures' = failures + 1
    /\ \E channelGone \in BOOLEAN :
          IF channelGone
          THEN dlv' = TakeBack(dlv) /\ queue' = TakenBack(dlv) \o queue
          ELSE UNCHANGED <<dlv, queue>>
    /\ UNCHANGED <<transports, manager, gc, requests, calls, channels,
                   wsclosed, proc, brokerOps, pubLog, registry, hmutex,
                   mpmutex, wsmutex, hpc, wire>>

\* --------------------------------------------------------------- processor

\* An end of ProcessMessage that puts every message back.
SettleNackAlways(r, err) ==
    [r EXCEPT !.nacks = @ + 1, !.ret = "err", !.pc = "done"]

\* The end of ProcessMessage: Nack(false, true) and return err when the action
\* failed, Ack(false) and return nil otherwise.
Settle(r, err) ==
    IF err
    THEN [r EXCEPT !.nacks = @ + 1, !.ret = "err", !.pc = "done"]
    ELSE [r EXCEPT !.acks = @ + 1, !.ret = "nil", !.pc = "done"]

\* A broker that drops a nacked message.
RequeueDrops(q, r, s) == q

\* The broker's queue after the delivery went from record r to record s:
\* a nack with requeue puts the message back. On a delivery the broker has
\* taken back Ack and Nack fail and change nothing.
Requeue(q, r, s) ==
    IF s.nacks > r.nacks /\ ~r.revoked THEN <<r.body>> \o q ELSE q

\* The goroutine of a delivery dies of an unrecovered panic or of a fatal
\* runtime error, and the process with it; `why` names the statement.
Panicked(r, why) == [r EXCEPT !.pc = "panicked", !.died = why]

\* A first stage that builds a fresh event holding the new status only.
handleOrderOrderedDropsFields(r, event) ==
    [r EXCEPT !.event = MapSet(EmptyMap, "order_status", ORDER_PREPARING),
              !.stage = ORDER_ORDERED, !.pc = "publish"]

\* handleOrderOrdered before its publish: the status is advanced in memory.
handleOrderOrdered(r, event) ==
    [r EXCEPT !.event = MapSet(event, "order_status", ORDER_PREPARING),
              !.stage = ORDER_ORDERED, !.pc = "publish"]

\* handleOrderPreparing before its publish: sleep, then advance the status.
handleOrderPreparing(r, event) ==
    [r EXCEPT !.event = MapSet(event, "order_status", ORDER_PREPARED),
              !.stage = ORDER_PREPARING, !.pc = "publish"]

\* A last stage that embeds the event with the status it arrived with.
handleOrderPreparedKeepsStatus(r, event) ==
    [r EXCEPT !.event = event, !.stage = ORDER_PREPARED, !.pc = "broadcast",
              !.data = [message |-> ORDER_PREPARED_SUCCESSFULLY, order |-> event]]

\* handleOrderPrepared before its broadcast: the completion notification.
handleOrderPrepared(r, event) ==
    LET e == MapSet(event, "order_status", ORDER_DELIVERED)
    IN  [r EXCEPT !.event = e, !.stage = ORDER_PREPARED, !.pc = "broadcast",
                  !.data = [message |-> ORDER_PREPARED_SUCCESSFULLY, order |-> e]]

\* ProcessMessage from its entry to the first blocking call: decode, dispatch
\* on order_status, and for the branches that call nothing, acknowledge.
ProcessMessage(d) ==
    /\ proc = "running"
    /\ d \in Tags
    /\ dlv[d].pc = "process"
    /\ LET r == dlv[d]
           u == Unmarshal(r.body)
       IN  IF u.err
           THEN LET s == Settle([r EXCEPT !.decodeErr = TRUE], TRUE)
                IN  /\ dlv' = [dlv EXCEPT ![d] = s]
                    /\ queue' = Requeue(queue, r, s)
                    /\ proc' = proc
           ELSE IF "order_status" \in DOMAIN u.event
           THEN CASE u.event["order_status"] = ORDER_ORDERED ->
                       /\ dlv' = [dlv EXCEPT ![d] = handleOrderOrdered(r, u.event)]
                       /\ UNCHANGED <<queue, proc>>
                  [] u.event["order_status"] = ORDER_PREPARING ->
                       \E draw \in Draws :
                          IF GenerateRandomDuration(1, 6, draw).panic
                          THEN /\ dlv' = [dlv EXCEPT ![d] =
                                            Panicked([r EXCEPT !.stage = ORDER_PREPARING], "delay")]
                               /\ proc' = "crashed"
                               /\ queue' = queue
                          ELSE /\ dlv' = [dlv EXCEPT ![d] = handleOrderPreparing(r, u.event)]
                               /\ UNCHANGED <<queue, proc>>
                  [] u.event["order_status"] = ORDER_PREPARED ->
                       /\ dlv' = [dlv EXCEPT ![d] = handleOrderPrepared(r, u.event)]
                       /\ UNCHANGED <<queue, proc>>
                  [] OTHER ->
                       LET s == Settle([r EXCEPT !.event = u.event], FALSE)
                       IN  /\ dlv' = [dlv EXCEPT ![d] = s]
                           /\ queue' = Requeue(queue, r, s)
                           /\ proc' = proc
           ELSE LET s == Settle([r EXCEPT !.event = u.event], FALSE)
                IN  /\ dlv' = [dlv EXCEPT ![d] = s]
                    /\ queue' = Requeue(queue, r, s)
                    /\ proc' = proc
    /\ UNCHANGED <<transports, manager, gc, requests, calls, channels,
                   wsclosed, failures, consumer, brokerOps, pubLog, registry,
                   hmutex, mpmutex, wsmutex, hpc, wire>>

\* --------------------------------------------------------------- publisher

\* sendErrorToUser: the cancellation notification that is broadcast when the
\* publish of a stage failed.
sendErrorToUser(r) ==
    [r EXCEPT !.data = [message |-> ORDER_CANCELLED, error |-> "publish failed"],
              !.pc = "broadcast"]

\* What handleOrderOrdered and handleOrderPreparing do when PublishEvent ends:
\* a panic ends the goroutine, an error is notified to the user and returned,
\* and after nil the handler returns nil.
PublishReturned(r, res, why) ==
    CASE res = "panic" -> Panicked([r EXCEPT !.pub = "panic"], why)
      [] res = "err"   -> sendErrorToUser([r EXCEPT !.pub = "err", !.actErr = TRUE])
      [] OTHER         -> [r EXCEPT !.pub = "nil", !.pc = "settle"]

\* What CreateOrder answers when PublishEvent ends: 200 after nil, 500 after
\* an error, and 500 after a panic, which gin.Recovery catches.
Respond(q, res) ==
    [q EXCEPT !.res = res, !.status = IF res = "nil" THEN 200 ELSE 500]

\* Caller c is a caller of PublishEvent.
Publishing(c) ==
    \/ c[1] \in {"worker", "request"}
    \/ c[1] = "call" /\ calls[c[2]].fn = "PublishEvent"

\* The bytes PublishEvent hands to the broker for caller c: json.Marshal(body).
Published(c) ==
    CASE c[1] = "worker"  -> Marshal(dlv[c[2]].event)
      [] c[1] = "request" -> Marshal(requests[c[2]].payload)
      [] OTHER            -> IF Marshals(calls[c[2]].body)
                             THEN Marshal(calls[c[2]].body.val)
                             ELSE [kind |-> "invalid"]

\* The call of caller c ends with `res` ("nil", "err" or "panic"): the
\* goroutine of a delivery and the consumer's goroutine do not recover a
\* panic, so the process dies; the handler of a request answers; the result
\* of a direct call is recorded.
Return(c, res, why) ==
    CASE c[1] = "worker" ->
           /\ dlv' = [dlv EXCEPT ![c[2]] = PublishReturned(@, res, why)]
           /\ proc' = IF res = "panic" THEN "crashed" ELSE proc
           /\ UNCHANGED <<requests, calls, consumer>>
      [] c[1] = "request" ->
           /\ requests' = [requests EXCEPT ![c[2]] = Respond(@, res)]
           /\ UNCHANGED <<dlv, proc, calls, consumer>>
      [] c[1] = "call" ->
           /\ calls' = [calls EXCEPT ![c[2]] =
                           [@ EXCEPT !.res = res, !.why = why,
                                     !.attempts = gc[c].attempts]]
           /\ UNCHANGED <<dlv, proc, requests, consumer>>
      [] OTHER ->
           /\ consumer' = "panicked"
           /\ proc' = "crashed"
           /\ UNCHANGED <<dlv, requests, calls>>

\* A publisher that acquires its channel before it serializes the body.
PublishEventChannelFirst(body) ==
    [ret |-> FALSE, res |-> "none", why |-> "no", frame |-> GetChannelEnter("publisher")]

\* MessagePublisher.PublishEvent up to its first wait: the error of a failed
\* serialization is returned before anything else is done; otherwise the
\* caller enters GetChannel.
PublishEvent(body) ==
    IF Marshals(body)
    THEN [ret |-> FALSE, res |-> "none", why |-> "no", frame |-> GetChannelEnter("publisher")]
    ELSE [ret |-> TRUE, res |-> "err", why |-> "marshal", frame |-> Idle]

\* handleOrderOrdered and handleOrderPreparing call PublishEvent with the
\* advanced event.
Publish(d) ==
    /\ proc = "running"
    /\ d \in Tags
    /\ dlv[d].pc = "publish"
    /\ gc[Worker(d)].pc = "idle"
    /\ LET p == PublishEvent(GoMap(dlv[d].event))
       IN  /\ gc' = [gc EXCEPT ![Worker(d)] = p.frame]
           /\ dlv' = IF p.ret
                     THEN [dlv EXCEPT ![d] = PublishReturned(@, p.res, p.why)]
                     ELSE dlv
    /\ UNCHANGED <<transports, manager, requests, calls, channels, wsclosed,
                   failures, proc, consumer, brokerOps, queue, pubLog,
                   registry, hmutex, mpmutex, wsmutex, hpc, wire>>

\* The transport manager m refers to is closed by the broker or the network.
ConnectionLost(m) ==
    /\ proc = "running"
    /\ failures < MaxFailures
    /\ transports[manager[m]] = "open"
    /\ TransportGone(manager[m])
    /\ failures' = failures + 1
    /\ UNCHANGED <<manager, gc, requests, calls, channels, wsclosed, proc,
                   brokerOps, pubLog, registry, hmutex, mpmutex, wsmutex, hpc,
                   wire>>

\* Connect, called by GetChannel: amqp091.Dial establishes a new transport
\* and returns it, or the dial fails and Connect panics.
Connect(c) ==
    /\ proc = "running"
    /\ gc[c].pc = "connect"
    /\ Len(transports) < MaxTransports
    /\ \E dialed \in Outcomes :
          /\ failures' = Spent(dialed)
          /\ IF dialed
             THEN /\ transports' = Append(transports, "open")
                  /\ gc' = [gc EXCEPT ![c].pc = "assign", ![c].conn = Len(transports) + 1]
                  /\ UNCHANGED <<dlv, proc, requests, calls, consumer>>
             ELSE /\ transports' = transports
                  /\ gc' = [gc EXCEPT ![c] = Idle]
                  /\ Return(c, "panic", "reconnect")
    /\ UNCHANGED <<manager, channels, queue, pubLog, wsclosed, brokerOps,
                   registry, hmutex, mpmutex, wsmutex, hpc, wire>>

\* Caller c is a direct caller of GetConnection.
InGetConnection(c) == IF c[1] = "call" THEN calls[c[2]].fn = "GetConnection" ELSE FALSE

\* GetChannel, the assignment r.conn = r.Connect(): the manager refers to the
\* transport this caller dialled; what it referred to before is dropped.
GetChannelAssign(c) ==
    /\ proc = "running"
    /\ gc[c].pc = "assign"
    /\ ~InGetConnection(c)
    /\ manager' = [manager EXCEPT ![ManagerOf(c)] = gc[c].conn]
    /\ gc' = [gc EXCEPT ![c].pc = "channel", ![c].conn = Nil]
    /\ UNCHANGED <<transports, requests, calls, channels, wsclosed, failures,
                   proc, consumer, brokerOps, queue, dlv, pubLog, registry,
                   hmutex, mpmutex, wsmutex, hpc, wire>>

\* A connection manager that gives up after the first failed attempt.
GetChannelOpenNoRetry(c) ==
    /\ proc = "running"
    /\ gc[c].pc \in {"channel", "retry"}
    /\ \E opened \in Attempt(transports[manager[ManagerOf(c)]] = "open") :
          /\ failures' = IF transports[manager[ManagerOf(c)]] = "open"
                         THEN Spent(opened) ELSE failures
          /\ IF opened
             THEN /\ gc' = [gc EXCEPT ![c].pc = "done",
                                      ![c].chan = manager[ManagerOf(c)],
                                      ![c].attempts = @ + 1]
                  /\ channels' = channels + 1
             ELSE /\ gc' = [gc EXCEPT ![c].pc = "done", ![c].attempts = @ + 1]
                  /\ channels' = channels
    /\ UNCHANGED <<transports, manager, requests, calls, wsclosed, proc,
                   consumer, brokerOps, queue, dlv, pubLog, registry, hmutex,
                   mpmutex, wsmutex, hpc, wire>>

\* GetChannel, one call of r.conn.Channel(), the first one or the retry, on
\* the transport the manager refers to now: the caller gets a channel on that
\* transport; a failed first attempt is followed by the retry, a failed retry
\* by `return nil`.
GetChannelOpen(c) ==
    /\ proc = "running"
    /\ gc[c].pc \in {"channel", "retry"}
    /\ \E opened \in Attempt(transports[manager[ManagerOf(c)]] = "open") :
          /\ failures' = IF transports[manager[ManagerOf(c)]] = "open"
                         THEN Spent(opened) ELSE failures
          /\ IF opened
             THEN /\ gc' = [gc EXCEPT ![c].pc = "done",
                                      ![c].chan = manager[ManagerOf(c)],
                                      ![c].attempts = @ + 1]
                  /\ channels' = channels + 1
             ELSE /\ gc' = [gc EXCEPT ![c].pc = IF @ = "channel" THEN "retry" ELSE "done",
                                      ![c].attempts = @ + 1]
                  /\ channels' = channels
    /\ UNCHANGED <<transports, manager, requests, calls, wsclosed, proc,
                   consumer, brokerOps, queue, dlv, pubLog, registry, hmutex,
                   mpmutex, wsmutex, hpc, wire>>

\* PublishEvent after GetChannel returned: a panic when the channel is nil or
\* closed; otherwise PublishWithContext, whose error is returned at once,
\* the channel left open; after a successful publish the message is in the
\* queue and channel.Close() is called.
PublishWithContext(c) ==
    /\ proc = "running"
    /\ gc[c].pc = "done"
    /\ Publishing(c)
    /\ LET ch == gc[c].chan
           up == IF ch = Nil THEN FALSE ELSE transports[ch] = "open"
       IN  \E usable \in Attempt(up) :
              IF ~usable
              THEN /\ gc' = [gc EXCEPT ![c] = Idle]
                   /\ channels' = IF ch = Nil THEN channels ELSE channels - 1
                   /\ failures' = IF up THEN failures + 1 ELSE failures
                   /\ Return(c, "panic", "channel")
                   /\ UNCHANGED <<queue, pubLog>>
              ELSE \E sent \in Outcomes :
                      /\ failures' = Spent(sent)
                      /\ IF sent
                         THEN /\ gc' = [gc EXCEPT ![c].pc = "close"]
                              /\ queue' = Append(queue, Published(c))
                              /\ pubLog' = IF c[1] = "worker"
                                           THEN Append(pubLog, Published(c))
                                           ELSE pubLog
                              /\ dlv' = IF c[1] = "worker"
                                        THEN [dlv EXCEPT ![c[2]].pub = "sent"]
                                        ELSE dlv
                              /\ UNCHANGED <<channels, proc, requests, calls,
                                             consumer>>
                         ELSE /\ gc' = [gc EXCEPT ![c] = Idle]
                              /\ Return(c, "err", "publish")
                              /\ UNCHANGED <<channels, queue, pubLog>>
    /\ UNCHANGED <<transports, manager, wsclosed, brokerOps, registry, hmutex,
                   mpmutex, wsmutex, hpc, wire>>

\* PublishEvent, channel.Close() after a successful publish, and `return nil`.
ChannelClose(c) ==
    /\ proc = "running"
    /\ gc[c].pc = "close"
    /\ gc' = [gc EXCEPT ![c] = Idle]
    /\ channels' = channels - 1
    /\ Return(c, "nil", "no")
    /\ UNCHANGED <<transports, manager, queue, pubLog, wsclosed, failures,
                   brokerOps, registry, hmutex, mpmutex, wsmutex, hpc, wire>>

\* The acknowledgment that ends ProcessMessage after a handler returned.
Acknowledge(d) ==
    /\ proc = "running"
    /\ d \in Tags
    /\ dlv[d].pc = "settle"
    /\ LET s == Settle(dlv[d], dlv[d].actErr)
       IN  /\ dlv' = [dlv EXCEPT ![d] = s]
           /\ queue' = Requeue(queue, dlv[d], s)
    /\ UNCHANGED <<transports, manager, gc, requests, calls, channels,
                   wsclosed, failures, proc, consumer, brokerOps, pubLog,
                   registry, hmutex, mpmutex, wsmutex, hpc, wire>>

\* ---------------------------------------------------------- order boundary

\* ctx.ShouldBindJSON(&payload) with payload a map[string]any: the error of
\* the decoder, or the decoded map, which is the nil map for the JSON null.
ShouldBindJSON(body) ==
    [err |-> Unmarshal(body).err, payload |-> Unmarshal(body).event,
     isNil |-> body.kind = "null"]

\* An order boundary that keeps an order_status the client supplied.
PayloadKeepsStatus(payload) ==
    IF "order_status" \in DOMAIN payload THEN payload
    ELSE MapSet(payload, "order_status", ORDER_ORDERED)

\* payload["order_status"] = constants.ORDER_ORDERED in CreateOrder.
Payload(payload) == MapSet(payload, "order_status", ORDER_ORDERED)

\* The bodies of the POST requests: text that is no JSON, the JSON null, an
\* order without a status and an order that carries a status of its own.
RequestBodies ==
    {[kind |-> "invalid"], [kind |-> "null"],
     Marshal([x \in {"order_no"} |-> 42]),
     Marshal(MapSet(OrderedEvent, "order_status", ORDER_DELIVERED))}

\* OrderHandler.CreateOrder on one POST request, up to its first wait: 400
\* when the body does not bind; a nil payload makes the assignment of
\* order_status panic, which gin.Recovery turns into a 500; otherwise
\* PublishEvent is called with the payload, and the answer follows when it
\* ends (Respond).
CreateOrder ==
    /\ proc = "running"
    /\ Len(requests) < MaxRequests
    /\ \E body \in RequestBodies :
          LET b == ShouldBindJSON(body)
              c == Request(Len(requests) + 1)
              q == [body |-> body, payload |-> Payload(b.payload),
                    res |-> "none", status |-> 0]
              p == PublishEvent(GoMap(q.payload))
          IN  IF b.err \/ b.isNil
              THEN /\ requests' = Append(requests,
                                         [q EXCEPT !.status = IF b.err THEN 400 ELSE 500])
                   /\ gc' = gc
              ELSE /\ requests' = Append(requests, IF p.ret THEN Respond(q, p.res) ELSE q)
                   /\ gc' = [gc EXCEPT ![c] = p.frame]
    /\ UNCHANGED <<transports, manager, calls, channels, wsclosed, failures,
                   proc, consumer, brokerOps, queue, dlv, pubLog, registry,
                   hmutex, mpmutex, wsmutex, hpc, wire>>

\* ------------------------------------------------------------- broadcaster

\* The handlers that are storing into the connection map.
MapWriters == {h \in Conns : hpc[h] = "mapWrite"}

\* A lookup under a key no handler registers.
MapReadsWrongKey == {MapGet(registry, "pizzas")}

\* The values a read of (*mp.connection)["pizza"] may yield: the entry of the
\* map, or, when a store by addConnection is in progress (it holds another
\* lock, so the two race), the old entry or the new one.
MapReads == {MapGet(registry, PizzaId)} \cup MapWriters

\* What a handler returns after its broadcast: handleOrderPrepared returns the
\* broadcast's error, sendErrorToUser drops it and the handler returns the
\* publish error.
AfterBroadcast(r, sendErr) ==
    [r EXCEPT !.actErr = IF r.stage = ORDER_PREPARED THEN sendErr ELSE r.actErr,
              !.pc = "settle"]

\* broadcastToWebSocket: mp.mutex.Lock().
broadcastToWebSocket(d) ==
    /\ proc = "running"
    /\ d \in Tags
    /\ dlv[d].pc = "broadcast"
    /\ mpmutex = Nil
    /\ mpmutex' = d
    /\ dlv' = [dlv EXCEPT ![d].pc = "lookup"]
    /\ UNCHANGED <<transports, manager, gc, requests, calls, channels,
                   wsclosed, failures, proc, consumer, brokerOps, queue,
                   pubLog, registry, hmutex, wsmutex, hpc, wire>>

\* broadcastToWebSocket: the lookup of the client's connection under mp.mutex.
\* Without a connection the broadcast returns nil; a read that races with a
\* store may also end in the runtime's fatal error
\* "concurrent map read and map write".
broadcastLookup(d) ==
    /\ proc = "running"
    /\ d \in Tags
    /\ dlv[d].pc = "lookup"
    /\ \/ \E socket \in MapReads :
             /\ IF socket = Nil
                THEN /\ dlv' = [dlv EXCEPT ![d] =
                                  AfterBroadcast([dlv[d] EXCEPT !.sent = "absent"], FALSE)]
                     /\ mpmutex' = Nil
                ELSE /\ dlv' = [dlv EXCEPT ![d] = [dlv[d] EXCEPT !.socket = socket,
                                                                !.pc = "send"]]
                     /\ mpmutex' = mpmutex
             /\ proc' = proc
       \/ /\ MapWriters # {}
          /\ proc' = "crashed"
          /\ dlv' = [dlv EXCEPT ![d] = Panicked(dlv[d], "maprace")]
          /\ mpmutex' = mpmutex
    /\ UNCHANGED <<transports, manager, gc, requests, calls, channels,
                   wsclosed, failures, consumer, brokerOps, queue, pubLog,
                   registry, hmutex, wsmutex, hpc, wire>>

\* WebSocketConnection.SendMessage: ws.mutex.Lock(), then the write begins.
SendMessage(d) ==
    /\ proc = "running"
    /\ d \in Tags
    /\ dlv[d].pc = "send"
    /\ wsmutex[dlv[d].socket] = Nil
    /\ wsmutex' = [wsmutex EXCEPT ![dlv[d].socket] = d]
    /\ dlv' = [dlv EXCEPT ![d].pc = "writing"]
    /\ UNCHANGED <<transports, manager, gc, requests, calls, channels,
                   wsclosed, failures, proc, consumer, brokerOps, queue,
                   pubLog, registry, hmutex, mpmutex, hpc, wire>>

\* conn.WriteMessage of a frame on connection c: the frame is on the wire
\* unless the transport is closed or the write fails.
WriteMessage(w, c, frame, ok) == IF ok THEN [w EXCEPT ![c] = Append(@, frame)] ELSE w

\* The write of SendMessage ends: both locks are released (deferred unlocks)
\* and the broadcast returns the write's error.
SendMessageDone(d) ==
    /\ proc = "running"
    /\ d \in Tags
    /\ dlv[d].pc = "writing"
    /\ LET r == dlv[d]
       IN  \E ok \in Attempt(r.socket \notin wsclosed) :
              /\ failures' = IF r.socket \notin wsclosed THEN Spent(ok) ELSE failures
              /\ wire' = WriteMessage(wire, r.socket, Marshal(r.data), ok)
              /\ dlv' = [dlv EXCEPT ![d] =
                           AfterBroadcast([r EXCEPT !.sent = IF ok THEN "ok" ELSE "err"],
                                          ~ok)]
    /\ wsmutex' = [wsmutex EXCEPT ![dlv[d].socket] = Nil]
    /\ mpmutex' = Nil
    /\ UNCHANGED <<transports, manager, gc, requests, calls, channels,
                   wsclosed, proc, consumer, brokerOps, queue, pubLog,
                   registry, hmutex, hpc>>

\* ------------------------------------------------------- WebSocket handler

\* HandleConnection: the upgrade succeeded and the greeting write on the raw
\* connection begins. (A failed upgrade returns at once and leaves no trace.)
HandleConnection(h) ==
    /\ proc = "running"
    /\ hpc[h] = "idle"
    /\ hpc' = [hpc EXCEPT ![h] = "greeting"]
    /\ UNCHANGED <<transports, manager, gc, requests, calls, channels,
                   wsclosed, failures, proc, consumer, brokerOps, queue, dlv,
                   pubLog, registry, hmutex, mpmutex, wsmutex, wire>>

\* A handler that registers the connection while its greeting is being written.
HandleConnectionRegistersFirst(h) ==
    /\ proc = "running"
    /\ hpc[h] = "greeting"
    /\ hmutex = Nil
    /\ registry' = MapSet(registry, PizzaId, h)
    /\ UNCHANGED <<transports, manager, gc, requests, calls, channels,
                   wsclosed, failures, proc, consumer, brokerOps, queue, dlv,
                   pubLog, hmutex, mpmutex, wsmutex, hpc, wire>>

\* HandleConnection: the greeting write ends, with the frame on the wire or
\* with an error that is ignored, and the connection is wrapped.
HandleConnectionGreeted(h) ==
    /\ proc = "running"
    /\ hpc[h] = "greeting"
    /\ \E written \in Outcomes :
          /\ failures' = Spent(written)
          /\ wire' = WriteMessage(wire, h, Greeting, written)
    /\ hpc' = [hpc EXCEPT ![h] = "greeted"]
    /\ UNCHANGED <<transports, manager, gc, requests, calls, channels,
                   wsclosed, proc, consumer, brokerOps, queue, dlv, pubLog,
                   registry, hmutex, mpmutex, wsmutex>>

\* addConnection: h.mutex.Lock(), then the store into the map begins.
addConnection(h) ==
    /\ proc = "running"
    /\ hpc[h] = "greeted"
    /\ hmutex = Nil
    /\ hmutex' = h
    /\ hpc' = [hpc EXCEPT ![h] = "mapWrite"]
    /\ UNCHANGED <<transports, manager, gc, requests, calls, channels,
                   wsclosed, failures, proc, consumer, brokerOps, queue, dlv,
                   pubLog, registry, mpmutex, wsmutex, wire>>

\* A registry in which the first registration under an id stays.
addConnectionKeepsFirst(h) ==
    /\ proc = "running"
    /\ hpc[h] = "mapWrite"
    /\ registry' = IF PizzaId \in DOMAIN registry THEN registry
                   ELSE MapSet(registry, PizzaId, h)
    /\ hmutex' = Nil
    /\ hpc' = [hpc EXCEPT ![h] = "reading"]
    /\ UNCHANGED <<transports, manager, gc, requests, calls, channels,
                   wsclosed, failures, proc, consumer, brokerOps, queue, dlv,
                   pubLog, mpmutex, wsmutex, wire>>

\* addConnection: the store (*h.connection)[clientId] = connection ends and
\* the lock is released; HandleConnection enters its read loop.
addConnectionDone(h) ==
    /\ proc = "running"
    /\ hpc[h] = "mapWrite"
    /\ registry' = MapSet(registry, PizzaId, h)
    /\ hmutex' = Nil
    /\ hpc' = [hpc EXCEPT ![h] = "reading"]
    /\ UNCHANGED <<transports, manager, gc, requests, calls, channels,
                   wsclosed, failures, proc, consumer, brokerOps, queue, dlv,
                   pubLog, mpmutex, wsmutex, wire>>

\* A handler that takes its connection out of the map when its client is gone.
ReadMessageFailedDeregisters(h) ==
    /\ proc = "running"
    /\ hpc[h] = "reading"
    /\ h \in wsclosed \/ failures < MaxFailures
    /\ hpc' = [hpc EXCEPT ![h] = "closed"]
    /\ wsclosed' = wsclosed \cup {h}
    /\ failures' = IF h \in wsclosed THEN failures ELSE failures + 1
    /\ registry' = IF MapGet(registry, PizzaId) = h THEN EmptyMap ELSE registry
    /\ UNCHANGED <<transports, manager, gc, requests, calls, channels, proc,
                   consumer, brokerOps, queue, dlv, pubLog, hmutex, mpmutex,
                   wsmutex, wire>>

\* The read loop of HandleConnection ends: ReadMessage fails when the client
\* goes away or the connection was closed, and the deferred conn.Close()
\* runs. The map keeps the entry.
ReadMessageFailed(h) ==
    /\ proc = "running"
    /\ hpc[h] = "reading"
    /\ h \in wsclosed \/ failures < MaxFailures
    /\ hpc' = [hpc EXCEPT ![h] = "closed"]
    /\ wsclosed' = wsclosed \cup {h}
    /\ failures' = IF h \in wsclosed THEN failures ELSE failures + 1
    /\ UNCHANGED <<transports, manager, gc, requests, calls, channels, proc,
                   consumer, brokerOps, queue, dlv, pubLog, registry, hmutex,
                   mpmutex, wsmutex, wire>>

\* ------------------------------------------------------------------- system

\* The steps of the callers inside GetChannel and PublishEvent.
CallerNext ==
    \/ \E c \in Callers : Connect(c)
    \/ \E c \in Callers : GetChannelAssign(c)
    \/ \E c \in Callers : GetChannelOpen(c)
    \/ \E c \in Callers : PublishWithContext(c)
    \/ \E c \in Callers : ChannelClose(c)

Next ==
    \/ ConsumeEventAndProcess
    \/ Consume
    \/ Dispatch
    \/ DeliveryStreamClosed
    \/ \E d \in Tags : ProcessMessage(d)
    \/ \E d \in Tags : Publish(d)
    \/ \E d \in Tags : Acknowledge(d)
    \/ \E d \in Tags : broadcastToWebSocket(d)
    \/ \E d \in Tags : broadcastLookup(d)
    \/ \E d \in Tags : SendMessage(d)
    \/ \E d \in Tags : SendMessageDone(d)
    \/ \E h \in Conns : HandleConnection(h)
    \/ \E h \in Conns : HandleConnectionGreeted(h)
    \/ \E h \in Conns : addConnection(h)
    \/ \E h \in Conns : addConnectionDone(h)
    \/ \E h \in Conns : ReadMessageFailed(h)
    \/ CreateOrder
    \/ \E m \in {"publisher", "consumer"} : ConnectionLost(m)
    \/ CallerNext

Spec == Init /\ [][Next]_vars

\* The steps of the goroutine of delivery d.
WorkerNext(d) ==
    \/ ProcessMessage(d)
    \/ Publish(d)
    \/ Connect(Worker(d))
    \/ GetChannelAssign(Worker(d))
    \/ GetChannelOpen(Worker(d))
    \/ PublishWithContext(Worker(d))
    \/ ChannelClose(Worker(d))
    \/ Acknowledge(d)
    \/ broadcastToWebSocket(d)
    \/ broadcastLookup(d)
    \/ SendMessage(d)
    \/ SendMessageDone(d)

\* The steps of the goroutine that runs ConsumeEventAndProcess, and of the
\* dispatch loop it starts.
ConsumerNext ==
    \/ ConsumeEventAndProcess
    \/ Connect(Consumer)
    \/ GetChannelAssign(Consumer)
    \/ GetChannelOpen(Consumer)
    \/ Consume
    \/ Dispatch

\* The steps of the handler of client h after the client connected.
HandlerNext(h) ==
    \/ HandleConnectionGreeted(h)
    \/ addConnection(h)
    \/ addConnectionDone(h)

\* The steps of the handler of request q after the request was accepted.
RequestNext(q) ==
    \/ Connect(Request(q))
    \/ GetChannelAssign(Request(q))
    \/ GetChannelOpen(Request(q))
    \/ PublishWithContext(Request(q))
    \/ ChannelClose(Request(q))

\* Every goroutine that can take a step eventually takes one; the
\* environment (clients, requests, failures) is under no obligation.
FairSpec ==
    /\ Spec
    /\ WF_vars(ConsumerNext)
    /\ \A d \in 1..MaxDeliveries : WF_vars(WorkerNext(d))
    /\ \A h \in Conns : WF_vars(HandlerNext(h))
    /\ \A q \in 1..MaxRequests : WF_vars(RequestNext(q))

\* ------------------------------------------- the services, called directly

\* The bodies a caller hands to PublishEvent(queueName, body any): an order
\* event, or a value json.Marshal cannot serialize.
PublishBodies == {GoMap(OrderedEvent), [go |-> "func"]}

\* The record of a direct call of function fn on the manager of service `on`.
NewCall(fn, on, body) ==
    [fn |-> fn, on |-> on, body |-> body, res |-> "none", why |-> "no",
     attempts |-> 0]

\* A direct call of PublishEvent(KITCHEN_ORDER_QUEUE, body), up to its first
\* wait: the call is recorded, and its result when it ends.
PublishEventCall ==
    /\ proc = "running"
    /\ Len(calls) < MaxCalls
    /\ \E body \in PublishBodies :
          LET c == Call(Len(calls) + 1)
              p == PublishEvent(body)
              k == [NewCall("PublishEvent", "publisher", body)
                       EXCEPT !.res = p.res, !.why = p.why]
          IN  /\ calls' = Append(calls, k)
              /\ gc' = [gc EXCEPT ![c] = p.frame]
    /\ UNCHANGED <<transports, manager, requests, channels, wsclosed, failures,
                   proc, consumer, brokerOps, queue, dlv, pubLog, registry,
                   hmutex, mpmutex, wsmutex, hpc, wire>>

\* A direct call of GetChannel on the publisher's manager, up to its first
\* wait.
GetChannelCall ==
    /\ proc = "running"
    /\ Len(calls) < MaxCalls
    /\ calls' = Append(calls, NewCall("GetChannel", "publisher", [go |-> "none"]))
    /\ gc' = [gc EXCEPT ![Call(Len(calls) + 1)] = GetChannelEnter("publisher")]
    /\ UNCHANGED <<transports, manager, requests, channels, wsclosed, failures,
                   proc, consumer, brokerOps, queue, dlv, pubLog, registry,
                   hmutex, mpmutex, wsmutex, hpc, wire>>

\* A direct call of MessagePublisher.DeclareQueue (svc = "publisher") or of
\* MessageConsumerService.DeclareQueue (svc = "consumer"), up to its first
\* wait: it calls GetChannel on the manager of its service.
DeclareQueueCall(svc) ==
    /\ proc = "running"
    /\ Len(calls) < MaxCalls
    /\ calls' = Append(calls, NewCall("DeclareQueue", svc, [go |-> "none"]))
    /\ gc' = [gc EXCEPT ![Call(Len(calls) + 1)] = GetChannelEnter(svc)]
    /\ UNCHANGED <<transports, manager, requests, channels, wsclosed, failures,
                   proc, consumer, brokerOps, queue, dlv, pubLog, registry,
                   hmutex, mpmutex, wsmutex, hpc, wire>>

\* DeclareQueue of a service after GetChannel returned: the nil test and
\* channel.QueueDeclare. The function returns and the channel stays open.
QueueDeclare(c) ==
    /\ proc = "running"
    /\ gc[c].pc = "done"
    /\ c[1] = "call"
    /\ calls[c[2]].fn = "DeclareQueue"
    /\ LET up == IF gc[c].chan = Nil THEN FALSE ELSE transports[gc[c].chan] = "open"
       IN  \E declared \in Attempt(up) :
              LET r == DeclareQueue(brokerOps, KITCHEN_ORDER_QUEUE, gc[c].chan, declared)
              IN  /\ brokerOps' = r.ops
                  /\ failures' = IF up THEN Spent(declared) ELSE failures
                  /\ calls' = [calls EXCEPT ![c[2]] =
                                  [@ EXCEPT !.res = r.res, !.why = r.why,
                                            !.attempts = gc[c].attempts]]
    /\ gc' = [gc EXCEPT ![c] = Idle]
    /\ UNCHANGED <<transports, manager, requests, channels, wsclosed, proc,
                   consumer, queue, dlv, pubLog, registry, hmutex, mpmutex,
                   wsmutex, hpc, wire>>

\* A direct call of RabbitMQConection.GetConnection on manager m, up to its
\* first wait: with an open transport it returns r.conn at once, with a
\* closed one it goes to Connect. No lock is held.
GetConnectionCall(m) ==
    /\ proc = "running"
    /\ Len(calls) < MaxCalls
    /\ LET lost == transports[manager[m]] = "closed"
       IN  /\ calls' = Append(calls,
                              [NewCall("GetConnection", m, [go |-> "none"])
                                  EXCEPT !.res = IF lost THEN "none" ELSE "conn"])
           /\ gc' = [gc EXCEPT ![Call(Len(calls) + 1)] =
                        IF lost THEN [Idle EXCEPT !.pc = "connect"] ELSE Idle]
    /\ UNCHANGED <<transports, manager, requests, channels, wsclosed, failures,
                   proc, consumer, brokerOps, queue, dlv, pubLog, registry,
                   hmutex, mpmutex, wsmutex, hpc, wire>>

\* GetConnection, the assignment r.conn = r.Connect() and `return r.conn`.
GetConnectionAssign(c) ==
    /\ proc = "running"
    /\ gc[c].pc = "assign"
    /\ InGetConnection(c)
    /\ manager' = [manager EXCEPT ![ManagerOf(c)] = gc[c].conn]
    /\ gc' = [gc EXCEPT ![c] = Idle]
    /\ calls' = [calls EXCEPT ![c[2]].res = "conn"]
    /\ UNCHANGED <<transports, requests, channels, wsclosed, failures, proc,
                   consumer, brokerOps, queue, dlv, pubLog, registry, hmutex,
                   mpmutex, wsmutex, hpc, wire>>

\* A direct call of RabbitMQConection.DeclareQueue on manager m is entered:
\* it calls r.conn.Channel() without testing the connection.
ConnectionDeclareQueueCall(m) ==
    /\ proc = "running"
    /\ Len(calls) < MaxCalls
    /\ calls' = Append(calls, NewCall("RabbitMQConection.DeclareQueue", m, [go |-> "none"]))
    /\ gc' = [gc EXCEPT ![Call(Len(calls) + 1)] = [Idle EXCEPT !.pc = "open"]]
    /\ UNCHANGED <<transports, manager, requests, channels, wsclosed, failures,
                   proc, consumer, brokerOps, queue, dlv, pubLog, registry,
                   hmutex, mpmutex, wsmutex, hpc, wire>>

\* RabbitMQConection.DeclareQueue, r.conn.Channel(): its error is returned;
\* there is no retry.
ConnectionChannel(c) ==
    /\ proc = "running"
    /\ gc[c].pc = "open"
    /\ \E opened \in Attempt(transports[manager[ManagerOf(c)]] = "open") :
          /\ failures' = IF transports[manager[ManagerOf(c)]] = "open"
                         THEN Spent(opened) ELSE failures
          /\ IF opened
             THEN /\ gc' = [gc EXCEPT ![c].pc = "declare",
                                      ![c].chan = manager[ManagerOf(c)],
                                      ![c].attempts = @ + 1]
                  /\ channels' = channels + 1
                  /\ calls' = calls
             ELSE /\ gc' = [gc EXCEPT ![c] = Idle]
                  /\ channels' = channels
                  /\ calls' = [calls EXCEPT ![c[2]] =
                                  [@ EXCEPT !.res = "err", !.why = "channel",
                                            !.attempts = 1]]
    /\ UNCHANGED <<transports, manager, requests, wsclosed, proc, consumer,
                   brokerOps, queue, dlv, pubLog, registry, hmutex, mpmutex,
                   wsmutex, hpc, wire>>

\* RabbitMQConection.DeclareQueue, channel.QueueDeclare: its error is what
\* the function returns, after the deferred channel.Close().
ConnectionQueueDeclare(c) ==
    /\ proc = "running"
    /\ gc[c].pc = "declare"
    /\ \E declared \in Attempt(transports[gc[c].chan] = "open") :
          /\ failures' = IF transports[gc[c].chan] = "open"
                         THEN Spent(declared) ELSE failures
          /\ calls' = [calls EXCEPT ![c[2]] =
                          [@ EXCEPT !.res = IF declared THEN "nil" ELSE "err",
                                    !.why = IF declared THEN "no" ELSE "declare",
                                    !.attempts = gc[c].attempts]]
    /\ brokerOps' = Append(brokerOps, <<"QueueDeclare", KITCHEN_ORDER_QUEUE>>)
    /\ gc' = [gc EXCEPT ![c].pc = "deferred"]
    /\ UNCHANGED <<transports, manager, requests, channels, wsclosed, proc,
                   consumer, queue, dlv, pubLog, registry, hmutex, mpmutex,
                   wsmutex, hpc, wire>>

\* RabbitMQConection.DeclareQueue, the deferred channel.Close().
ConnectionChannelClose(c) ==
    /\ proc = "running"
    /\ gc[c].pc = "deferred"
    /\ channels' = channels - 1
    /\ gc' = [gc EXCEPT ![c] = Idle]
    /\ UNCHANGED <<transports, manager, requests, calls, wsclosed, failures,
                   proc, consumer, brokerOps, queue, dlv, pubLog, registry,
                   hmutex, mpmutex, wsmutex, hpc, wire>>

\* A direct call of RabbitMQConection.Close on manager m: r.conn.Close(),
\* which does to an open transport what its loss does and leaves a closed
\* one as it is.
Close(m) ==
    /\ proc = "running"
    /\ Len(calls) < MaxCalls
    /\ calls' = Append(calls, [NewCall("Close", m, [go |-> "none"]) EXCEPT !.res = "nil"])
    /\ IF transports[manager[m]] = "open"
       THEN TransportGone(manager[m])
       ELSE UNCHANGED <<transports, consumer, dlv, queue>>
    /\ UNCHANGED <<manager, gc, requests, channels, wsclosed, failures, proc,
                   brokerOps, pubLog, registry, hmutex, mpmutex, wsmutex, hpc,
                   wire>>

\* The steps of the direct calls of the functions of the publisher and of a
\* manager m that nothing in the program calls.
DirectNext(m) ==
    \/ DeclareQueueCall(m)
    \/ \E c \in Callers : QueueDeclare(c)
    \/ GetConnectionCall(m)
    \/ \E c \in Callers : GetConnectionAssign(c)
    \/ ConnectionDeclareQueueCall(m)
    \/ \E c \in Callers : ConnectionChannel(c)
    \/ \E c \in Callers : ConnectionQueueDeclare(c)
    \/ \E c \in Callers : ConnectionChannelClose(c)
    \/ Close(m)

PublisherNext ==
    \/ PublishEventCall
    \/ GetChannelCall
    \/ DirectNext("publisher")
    \/ ConnectionLost("publisher")
    \/ CallerNext

\* The publisher and its connection manager under direct calls.
PublisherSpec == Init /\ [][PublisherNext]_vars

\* The connection handler h has wrapped in a WebSocketConnection.
Wrapped(h) == hpc[h] \in {"greeted", "mapWrite", "reading", "closed"}

\* A direct call of WebSocketConnection.ReceivedMessage: ws.mutex.Lock(),
\* then the read begins.
ReceivedMessage(h) ==
    /\ proc = "running"
    /\ Wrapped(h)
    /\ wsmutex[h] = Nil
    /\ wsmutex' = [wsmutex EXCEPT ![h] = Reader]
    /\ UNCHANGED <<transports, manager, gc, requests, calls, channels,
                   wsclosed, failures, proc, consumer, brokerOps, queue, dlv,
                   pubLog, registry, hmutex, mpmutex, hpc, wire>>

\* The read of ReceivedMessage ends, with a message of the client or with an
\* error, and the deferred unlock runs.
ReceivedMessageDone(h) ==
    /\ proc = "running"
    /\ wsmutex[h] = Reader
    /\ wsmutex' = [wsmutex EXCEPT ![h] = Nil]
    /\ UNCHANGED <<transports, manager, gc, requests, calls, channels,
                   wsclosed, failures, proc, consumer, brokerOps, queue, dlv,
                   pubLog, registry, hmutex, mpmutex, hpc, wire>>

\* A direct call of WebSocketConnection.Close: ws.conn.Close(), without the
\* mutex.
WebSocketConnectionClose(h) ==
    /\ proc = "running"
    /\ Wrapped(h)
    /\ wsclosed' = wsclosed \cup {h}
    /\ UNCHANGED <<transports, manager, gc, requests, calls, channels,
                   failures, proc, consumer, brokerOps, queue, dlv, pubLog,
                   registry, hmutex, mpmutex, wsmutex, hpc, wire>>

\* The program together with direct calls of the public functions that
\* nothing in the program calls.
ApiNext ==
    \/ Next
    \/ \E m \in {"publisher", "consumer"} : DirectNext(m)
    \/ \E h \in Conns : ReceivedMessage(h)
    \/ \E h \in Conns : ReceivedMessageDone(h)
    \/ \E h \in Conns : WebSocketConnectionClose(h)

ApiSpec == Init /\ [][ApiNext]_vars

\* ------------------------------------------------------------------ claims

\* The processing of delivery d is over: ProcessMessage returned, or its
\* goroutine died.
Over(d) == dlv[d].pc \in {"done", "panicked"}

\* The order event {"order_no": 42, "order_status": "ORDERED"} on the wire.
OrderedBody ==
    [kind |-> "object",
     obj |-> [x \in {"order_no", "order_status"} |->
                 IF x = "order_no" THEN 42 ELSE ORDER_ORDERED]]

\* A completion notification with order_status = DELIVERED went through
\* broadcastToWebSocket (written to the client, or no client registered).
DeliveredBroadcast ==
    \E d \in Tags :
       /\ dlv[d].stage = ORDER_PREPARED
       /\ dlv[d].sent \in {"ok", "absent"}
       /\ dlv[d].data.order["order_status"] = ORDER_DELIVERED

\* The order_status of each message the processor published, in order.
PublishedStatuses == [i \in 1..Len(pubLog) |-> pubLog[i].obj["order_status"]]

\* Nothing but the pipeline has acted: no failure of the environment, no
\* request and no client so far.
Undisturbed ==
    /\ NoFailure
    /\ requests = <<>>
    /\ \A h \in Conns : hpc[h] = "idle"

\* C1: starting from one ORDERED event in the queue, in a run without a
\* failure and without other traffic, the pipeline eventually broadcasts the
\* DELIVERED payload, and the statuses published before that are exactly
\* PREPARING, then PREPARED.
C1_OrderedReachesDelivered ==
    queue = <<OrderedBody>>
        => /\ <>(DeliveredBroadcast \/ ~Undisturbed)
           /\ []((DeliveredBroadcast /\ Undisturbed)
                    => PublishedStatuses = <<ORDER_PREPARING, ORDER_PREPARED>>)

\* C2: every delivery handed to ProcessMessage gets exactly one acknowledgment
\* decision, an Ack or a Nack, never both and never neither, on every path.
C2_ExactlyOneDecision ==
    \A d \in Tags :
       /\ dlv[d].acks + dlv[d].nacks <= 1
       /\ Over(d) => dlv[d].acks + dlv[d].nacks = 1

\* Bodies json.Unmarshal rejects: text that is no JSON, and a JSON value that
\* is neither an object nor null.
Undecodable == {[kind |-> "invalid"], [kind |-> "array"]}

\* Bodies the claim calls malformed: not a JSON object, or an object without
\* the order_status key.
Malformed(body) ==
    IF body.kind = "object" THEN "order_status" \notin DOMAIN body.obj ELSE TRUE

\* The copies of body b the broker holds: ready in the queue, or delivered
\* and outstanding.
Copies(b) ==
    Cardinality({i \in 1..Len(queue) : queue[i] = b})
    + Cardinality({d \in Tags : dlv[d].body = b /\ Unacked(dlv[d])})

\* Body b is ready in the queue.
InQueue(b) == \E i \in 1..Len(queue) : queue[i] = b

\* C3: a malformed payload, undecodable or without order_status, is always
\* nacked with requeue and never acked.
C3_MalformedAlwaysNacked ==
    \A d \in Tags :
       Malformed(dlv[d].body)
          => /\ dlv[d].acks = 0
             /\ Over(d) => dlv[d].nacks = 1

\* C4: ProcessMessage acks exactly when decoding succeeded and the action
\* returned no error; in every other case it nacks with requeue and returns an
\* error; it returns nil exactly when it acked.
C4_AckIffActionSucceeded ==
    \A d \in Tags :
       /\ dlv[d].acks = 1 <=> dlv[d].ret = "nil"
       /\ dlv[d].acks = 1 => ~dlv[d].decodeErr /\ ~dlv[d].actErr
       /\ (Over(d) /\ dlv[d].acks = 0) => dlv[d].nacks = 1 /\ dlv[d].ret = "err"

\* C5: no error that arises while a delivery is processed (the delay
\* computation, an unavailable channel, a failed reconnect) ends the process:
\* the dispatch loop stays able to dispatch the next delivery.
C5_ErrorsContained ==
    \A d \in Tags :
       dlv[d].died \in {"delay", "channel", "reconnect"} => proc = "running"

\* C6: when the re-publish of the ORDERED or PREPARING stage fails, the error
\* notification is broadcast, the delivery is nacked with requeue, and no
\* successor is published.
C6_PublishFailureHandled ==
    /\ \A d \in Tags :
          (Over(d) /\ dlv[d].pub \in {"err", "panic"})
             => /\ dlv[d].nacks = 1
                /\ dlv[d].acks = 0
                /\ dlv[d].sent # "none"
                /\ dlv[d].data.message = ORDER_CANCELLED
    /\ Len(pubLog) = Cardinality({d \in Tags : dlv[d].pub = "nil"})

\* C7: the map is never stored into while it is looked up, and never stored
\* into by two registrations at once.
C7_MapAccessSerialized ==
    /\ Cardinality(MapWriters) <= 1
    /\ MapWriters # {} => \A d \in Tags : dlv[d].pc # "lookup"

\* The workers inside the write of connection c.
Writing(c) == {d \in Tags : dlv[d].pc = "writing" /\ dlv[d].socket = c}

\* Connection c can be found by a broadcast: it is in the map, a store of it
\* is in progress, or a worker already holds it.
Visible(c) ==
    \/ (PizzaId \in DOMAIN registry /\ registry[PizzaId] = c)
    \/ hpc[c] = "mapWrite"
    \/ \E d \in Tags : dlv[d].socket = c

\* C8: at most one worker is inside the write of a connection at any time,
\* and the handler's greeting write has ended before the connection is
\* visible to any broadcast.
C8_ConnectionWritesSerialized ==
    \A c \in Conns :
       /\ Cardinality(Writing(c)) <= 1
       /\ Visible(c) => hpc[c] \notin {"idle", "greeting"}
       /\ hpc[c] = "greeting" => Writing(c) = {}

\* One worker is inside the write of the registered connection while another
\* one waits to broadcast.
C8_Witness ==
    \E d1 \in Tags, d2 \in Tags :
       /\ dlv[d1].pc = "writing"
       /\ dlv[d2].pc = "broadcast"
       /\ PizzaId \in DOMAIN registry
       /\ registry[PizzaId] = dlv[d1].socket

\* C9: a send that follows a registration writes exactly the marshalled bytes
\* to the registered connection; a send with no registration returns nil,
\* writes nothing and leaves the map unchanged.
C9_RegisterThenSend ==
    [][\A d \in Tags :
          /\ (dlv[d].pc = "lookup" /\ dlv'[d].pc # "lookup" /\ MapWriters = {})
                => IF PizzaId \in DOMAIN registry
                   THEN /\ dlv'[d].socket = registry[PizzaId]
                        /\ dlv'[d].pc = "send"
                   ELSE /\ dlv'[d].pc = "settle"
                        /\ dlv'[d].sent = "absent"
                        /\ dlv[d].stage = ORDER_PREPARED => ~dlv'[d].actErr
                        /\ wire' = wire
                        /\ registry' = registry
          /\ (dlv[d].pc = "writing" /\ dlv'[d].pc # "writing")
                => /\ dlv'[d].sent \in {"ok", "err"}
                   /\ dlv'[d].sent = "ok"
                         => wire' = [wire EXCEPT ![dlv[d].socket] =
                                        Append(@, [kind |-> "object", obj |-> dlv[d].data])]
                   /\ dlv'[d].sent = "err" => wire' = wire
                   /\ (NoFailure' /\ hpc[dlv[d].socket] = "reading") => dlv'[d].sent = "ok"
      ]_vars

\* One broadcast found no registration, a later one wrote its bytes to the
\* registered connection right after the greeting.
C9_Witness ==
    \E d1 \in Tags, d2 \in Tags :
       /\ dlv[d1].sent = "absent"
       /\ dlv[d2].sent = "ok"
       /\ wire[dlv[d2].socket] = <<Greeting, [kind |-> "object", obj |-> dlv[d2].data]>>

\* C10: the consumer declares the queue before it subscribes to it.
C10_DeclareBeforeConsume ==
    \A i \in 1..Len(brokerOps) :
       brokerOps[i][1] = "Consume"
          => \E j \in 1..(i - 1) : brokerOps[j] = <<"QueueDeclare", brokerOps[i][2]>>

\* C11: PublishEvent never ends in a panic for lack of a usable channel: when
\* GetChannel returns nil after its retry, or the channel is closed, the call
\* returns an error to the handler that called it.
C11_UnusableChannelReturnsError ==
    \A d \in Tags : ~(dlv[d].pub = "panic" /\ dlv[d].died = "channel")

\* The step is the entry of a direct call of PublishEvent with a body that
\* json.Marshal rejects.
UnserializableCall ==
    /\ Len(calls') = Len(calls) + 1
    /\ calls'[Len(calls')].fn = "PublishEvent"
    /\ ~Marshals(calls'[Len(calls')].body)

\* C12: a PublishEvent call whose body fails serialization returns an error
\* at once: it does not enter GetChannel, makes no attempt to open a channel,
\* dials nothing, leaves no channel open and leaves the queue as it was.
C12_UnserializableBodyRejected ==
    /\ [][UnserializableCall
             => /\ calls'[Len(calls')].res = "err"
                /\ calls'[Len(calls')].why = "marshal"
                /\ gc'[Call(Len(calls'))] = Idle
                /\ channels' = channels
                /\ transports' = transports
                /\ queue' = queue
                /\ brokerOps' = brokerOps
         ]_vars
    /\ [](\A i \in 1..Len(calls) :
             (calls[i].fn = "PublishEvent" /\ ~Marshals(calls[i].body))
                => /\ gc[Call(i)] = Idle
                   /\ calls[i].res = "err"
                   /\ calls[i].attempts = 0)

\* A call with an unserializable body returned its error after a call with a
\* serializable body had been published and had returned.
C12_Witness ==
    /\ Len(calls) = 2
    /\ calls[1].fn = "PublishEvent" /\ calls[1].res = "nil"
    /\ calls[2].fn = "PublishEvent" /\ calls[2].body = [go |-> "func"]
    /\ calls[2].res = "err"

\* C13: GetChannel attempts to open a channel at most twice: once when the
\* first attempt succeeds, a second time exactly when the first one failed,
\* and it returns no channel exactly when both attempts failed.
C13_SingleRetry ==
    /\ [](\A c \in Callers :
             /\ gc[c].attempts \in 0..2
             /\ gc[c].pc = "channel" => gc[c].attempts = 0
             /\ gc[c].pc = "retry" => gc[c].attempts = 1
             /\ gc[c].pc = "done"
                   => /\ gc[c].attempts \in 1..2
                      /\ gc[c].chan = Nil => gc[c].attempts = 2)
    /\ [][\A c \in Callers :
             /\ (gc[c].pc = "channel" /\ gc'[c].pc # "channel")
                   => \/ gc'[c].pc = "done" /\ gc'[c].chan # Nil /\ gc'[c].attempts = 1
                      \/ gc'[c].pc = "retry" /\ gc'[c].chan = Nil
             /\ (gc[c].pc = "retry" /\ gc'[c].pc # "retry")
                   => gc'[c].pc = "done" /\ gc'[c].attempts = 2
         ]_vars

\* One direct call of GetChannel got its channel at the first attempt,
\* another one got none after two attempts.
C13_Witness ==
    /\ Len(calls) = 2
    /\ calls[1].fn = "GetChannel" /\ calls[2].fn = "GetChannel"
    /\ gc[Call(1)].pc = "done" /\ gc[Call(1)].attempts = 1 /\ gc[Call(1)].chan # Nil
    /\ gc[Call(2)].pc = "done" /\ gc[Call(2)].attempts = 2 /\ gc[Call(2)].chan = Nil

\* C14: every channel PublishEvent acquired is closed when the call has
\* returned, after a successful publish and after a failed one: the open
\* channels are those held by the calls in progress and by the consumer.
C14_ChannelsReleased ==
    channels = Cardinality({c \in Callers : gc[c].chan # Nil})

\* Handler h completes its registration in this step.
Registers(h) == hpc[h] = "mapWrite" /\ hpc'[h] = "reading"

\* Every client has connected and completed its registration.
AllRegistered == \A h \in Conns : hpc[h] \in {"reading", "closed"}

\* C15: the registry holds at most one connection per client identity, the
\* one registered last: a registration replaces the entry, nothing else
\* changes it, and a broadcast that follows the registrations finds the last
\* one and writes to that connection only.
C15_LastWriterWins ==
    /\ [](DOMAIN registry \subseteq {PizzaId})
    /\ [][
           /\ \A h \in Conns :
                Registers(h) => registry'[PizzaId] = h /\ DOMAIN registry' = {PizzaId}
           /\ (\A h \in Conns : ~Registers(h)) => registry' = registry
           /\ \A d \in Tags :
                /\ (AllRegistered /\ dlv[d].pc = "lookup" /\ dlv'[d].pc # "lookup")
                      => dlv'[d].socket = registry[PizzaId]
                /\ (dlv[d].pc = "writing" /\ dlv'[d].pc # "writing")
                      => \A c \in Conns \ {dlv[d].socket} : wire'[c] = wire[c]
      ]_vars

\* Two clients registered one after the other, and a broadcast was written to
\* the connection registered last and not to the other one.
C15_Witness ==
    /\ AllRegistered
    /\ \E d \in Tags, c \in Conns :
          /\ dlv[d].sent = "ok"
          /\ dlv[d].socket = registry[PizzaId]
          /\ wire[dlv[d].socket] = <<Greeting, Marshal(dlv[d].data)>>
          /\ c # dlv[d].socket
          /\ wire[c] = <<Greeting>>

\* The status that follows `status` in the pipeline.
NextStatus(status) == IF status = ORDER_ORDERED THEN ORDER_PREPARING ELSE ORDER_PREPARED

\* C16: a delivery with status ORDERED or PREPARING is processed successfully
\* when nothing fails, and a successfully processed one has published exactly
\* one message, with the next status (PREPARING after ORDERED, PREPARED after
\* PREPARING), and has broadcast nothing.
C16_StagesAdvance ==
    /\ \A d \in Tags :
          dlv[d].stage \in {ORDER_ORDERED, ORDER_PREPARING}
             => /\ (NoFailure /\ Over(d)) => dlv[d].acks = 1
                /\ dlv[d].acks = 1
                      => /\ dlv[d].pub = "nil"
                         /\ dlv[d].event["order_status"] = NextStatus(dlv[d].stage)
                         /\ dlv[d].sent = "none"
    /\ Len(pubLog) = Cardinality({d \in Tags : dlv[d].pub = "nil"})

\* The frames on connection c that workers wrote (all but the greeting).
Notifications(c) == Cardinality({i \in 1..Len(wire[c]) : wire[c][i] # Greeting})

\* C17: a delivery with status PREPARED publishes nothing; its notification
\* embeds the whole event with order_status set to DELIVERED and is written
\* once to the registered connection; the delivery is nacked exactly when that
\* write failed and acked when it succeeded or no client was registered.
C17_PreparedBroadcastsOnly ==
    /\ \A d \in Tags :
          dlv[d].stage = ORDER_PREPARED
             => /\ dlv[d].pub = "none"
                /\ dlv[d].data =
                      [message |-> ORDER_PREPARED_SUCCESSFULLY,
                       order |-> MapSet(dlv[d].body.obj, "order_status", ORDER_DELIVERED)]
                /\ dlv[d].nacks = 1 <=> (dlv[d].pc = "done" /\ dlv[d].sent = "err")
                /\ dlv[d].acks = 1
                      <=> (dlv[d].pc = "done" /\ dlv[d].sent \in {"ok", "absent"})
                /\ dlv[d].sent = "ok"
                      => \E i \in 1..Len(wire[dlv[d].socket]) :
                            wire[dlv[d].socket][i] = Marshal(dlv[d].data)
    /\ \A c \in Conns :
          Notifications(c) = Cardinality({d \in Tags : dlv[d].sent = "ok" /\ dlv[d].socket = c})
    /\ \A i \in 1..Len(pubLog) :
          pubLog[i].obj["order_status"] \in {ORDER_PREPARING, ORDER_PREPARED}

\* One PREPARED delivery was written to the client and acked, another one
\* failed its write and was nacked.
C17_Witness ==
    \E d1 \in Tags, d2 \in Tags :
       /\ dlv[d1].stage = ORDER_PREPARED /\ dlv[d2].stage = ORDER_PREPARED
       /\ dlv[d1].sent = "ok" /\ dlv[d1].acks = 1
       /\ dlv[d2].sent = "err" /\ dlv[d2].nacks = 1

\* Bodies whose order_status is DELIVERED, CANCELLED or a value the pipeline
\* does not know.
Terminal(body) ==
    IF body.kind = "object" /\ "order_status" \in DOMAIN body.obj
    THEN body.obj["order_status"] \notin {ORDER_ORDERED, ORDER_PREPARING, ORDER_PREPARED}
    ELSE FALSE

\* What C18 says of every delivery with a terminal status, until it is done:
\* nothing is published, nothing is broadcast, the event is left as it was
\* decoded, and the one decision is an Ack.
TerminalUntouched ==
    \A d \in Tags :
       Terminal(dlv[d].body)
          => /\ dlv[d].pc \in {"process", "done"}
             /\ dlv[d].pub = "none"
             /\ dlv[d].sent = "none"
             /\ dlv[d].nacks = 0
             /\ dlv[d].pc = "done"
                   => /\ dlv[d].acks = 1
                      /\ dlv[d].ret = "nil"
                      /\ dlv[d].event = dlv[d].body.obj

\* Delivery d, of a terminal status, is processed in this step.
TerminalProcessed(d) ==
    Terminal(dlv[d].body) /\ dlv[d].pc = "process" /\ dlv'[d].pc = "done"

\* C18 (as stated): a delivery whose order_status is outside ORDERED,
\* PREPARING, PREPARED is a no-op: nothing is published, nothing is
\* broadcast, the event is left as it was decoded and the delivery is acked;
\* the step that processes it removes the message from the broker and
\* changes neither the queue, nor the published messages, nor any connection.
C18_TerminalStatusIsNoOp ==
    /\ []TerminalUntouched
    /\ [][\A d \in Tags :
             TerminalProcessed(d)
                => /\ queue' = queue
                   /\ pubLog' = pubLog
                   /\ wire' = wire
                   /\ channels' = channels
                   /\ Copies(dlv[d].body)' = Copies(dlv[d].body) - 1
      ]_vars

\* C18 (amended): a delivery with a terminal status publishes nothing,
\* broadcasts nothing, leaves the event as decoded and calls Ack; the Ack
\* removes the message from the broker when the delivery is still
\* outstanding, and when the broker has taken the delivery back (the
\* consumer's channel went away before the Ack) the Ack changes nothing and
\* the message stays in the queue.
C18_TerminalStatusAcksOnly ==
    /\ []TerminalUntouched
    /\ [](\A d \in Tags :
             (Terminal(dlv[d].body) /\ dlv[d].revoked) => InQueue(dlv[d].body))
    /\ [][\A d \in Tags :
             TerminalProcessed(d)
                => /\ queue' = queue
                   /\ pubLog' = pubLog
                   /\ wire' = wire
                   /\ channels' = channels
                   /\ Copies(dlv[d].body)' =
                         IF dlv[d].revoked THEN Copies(dlv[d].body)
                         ELSE Copies(dlv[d].body) - 1
      ]_vars

\* A DELIVERED delivery was acked while a client was registered: nothing
\* was published, nothing but the greeting was written to the client, and
\* the queue is empty.
C18_Witness ==
    \E d \in Tags :
       /\ dlv[d].body = Marshal(MapSet(OrderedEvent, "order_status", ORDER_DELIVERED))
       /\ dlv[d].acks = 1
       /\ pubLog = <<>>
       /\ queue = <<>>
       /\ PizzaId \in DOMAIN registry
       /\ wire[registry[PizzaId]] = <<Greeting>>

\* C19: the delay the PREPARING stage computes, GenerateRandomDuration(1, 6),
\* returns for every draw, is a whole number of seconds between 1 and 6, and
\* does not wrap around; the stage goes on to its publish.
C19_DelayWithinBounds ==
    \A d \in Tags :
       dlv[d].stage = ORDER_PREPARING
          => /\ dlv[d].died # "delay"
             /\ \A r \in Draws :
                   /\ ~GenerateRandomDuration(1, 6, r).panic
                   /\ ~GenerateRandomDuration(1, 6, r).wraps
                   /\ GenerateRandomDuration(1, 6, r).exp10 = 0
                   /\ GenerateRandomDuration(1, 6, r).coef \in 1..6

\* The deliveries whose processing has begun and is not over.
InFlight == {d \in Tags : ~Over(d)}

\* C20: the dispatch loop never waits for a worker: as long as the process
\* runs, the subscription is open and a message is ready, the loop can take
\* the next delivery and start its worker, whatever the workers of earlier
\* deliveries are doing.
C20_DispatchNeverWaits ==
    (proc = "running" /\ consumer = "consuming" /\ queue # <<>>
        /\ Len(dlv) < MaxDeliveries)
       => ENABLED Dispatch

\* Every delivery the run allows is being processed at the same time, none of
\* them acknowledged yet, while one worker is inside a write to the client.
C20_Witness ==
    /\ Cardinality(InFlight) = MaxDeliveries
    /\ \A d \in Tags : dlv[d].acks + dlv[d].nacks = 0
    /\ \E d \in Tags : dlv[d].pc = "writing"

\* C21: a closed delivery stream is terminal: once the stream has closed no
\* subscription is issued and no delivery is dispatched any more, and
\* ConsumeEventAndProcess does not return; it returns only from its start,
\* when it got no channel or the subscription failed.
C21_ClosedStreamIsTerminal ==
    /\ [][
           /\ consumer = "closed"
               => /\ consumer' = "closed"
                  /\ brokerOps' = brokerOps
                  /\ Len(dlv') = Len(dlv)
           /\ (consumer' = "returned" /\ consumer # "returned") => consumer = "start"
           /\ consumer = "consuming" => consumer' \in {"consuming", "closed"}
           /\ (consumer = "consuming" /\ transports'[gc[Consumer].chan] = "closed")
                 => consumer' = "closed"
         ]_vars
    /\ [](consumer = "consuming" => transports[gc[Consumer].chan] = "open")

\* The consumer's connection was lost while a delivery was outstanding: the
\* stream is closed, the broker put the message back, the worker started
\* before went on to its publish and to the end, and both messages stay in
\* the queue undispatched.
C21_Witness ==
    /\ consumer = "closed"
    /\ transports[manager.consumer] = "closed"
    /\ Len(dlv) = 1
    /\ dlv[1].revoked
    /\ dlv[1].pc = "done"
    /\ Len(pubLog) = 1
    /\ queue = <<dlv[1].body, pubLog[1]>>

\* Events a and b have the same keys, and the same value under every key
\* other than order_status.
SameButStatus(a, b) ==
    /\ DOMAIN a \cup {"order_status"} = DOMAIN b \cup {"order_status"}
    /\ \A k \in (DOMAIN a \cap DOMAIN b) \ {"order_status"} : a[k] = b[k]

\* C22: the processor changes nothing but order_status: the event a stage has
\* published, and the event embedded in the completion notification, agree
\* with the consumed body on every other field; and a nack puts the original
\* body, with its original status, back at the head of the queue although the
\* event in memory was advanced.
C22_OnlyStatusChanges ==
    /\ [](\A d \in Tags :
             /\ (dlv[d].stage \in {ORDER_ORDERED, ORDER_PREPARING, ORDER_PREPARED}
                   /\ dlv[d].died # "delay")
                   => /\ SameButStatus(dlv[d].event, dlv[d].body.obj)
                      /\ "order_status" \in DOMAIN dlv[d].event
                      /\ dlv[d].body.obj["order_status"] = dlv[d].stage
             /\ dlv[d].stage = ORDER_PREPARED
                   => SameButStatus(dlv[d].data.order, dlv[d].body.obj))
    /\ [](\A i \in 1..Len(pubLog) :
             \E d \in Tags : /\ dlv[d].pub \in {"sent", "nil"}
                             /\ pubLog[i] = Marshal(dlv[d].event)
                             /\ SameButStatus(pubLog[i].obj, dlv[d].body.obj))
    /\ [][\A d \in Tags :
             /\ dlv'[d].nacks > dlv[d].nacks
                   => /\ queue' = IF dlv[d].revoked THEN queue
                                  ELSE <<dlv[d].body>> \o queue
                      /\ dlv'[d].body = dlv[d].body
                      /\ pubLog' = pubLog
             /\ (dlv'[d].revoked /\ ~dlv[d].revoked)
                   => /\ dlv'[d].body = dlv[d].body
                      /\ \E i \in 1..Len(queue') : queue'[i] = dlv[d].body
      ]_vars
    /\ [](\A d \in Tags : dlv[d].revoked => InQueue(dlv[d].body))

\* An ORDERED delivery whose publish failed was nacked with its event already
\* advanced to PREPARING, was redelivered as ORDERED, and published then.
C22_Witness ==
    \E d1 \in Tags, d2 \in Tags :
       /\ d1 < d2
       /\ dlv[d1].body = OrderedBody /\ dlv[d2].body = OrderedBody
       /\ dlv[d1].nacks = 1 /\ dlv[d1].pub = "err"
       /\ dlv[d1].event["order_status"] = ORDER_PREPARING
       /\ dlv[d2].pub = "nil"
       /\ pubLog = <<Marshal(MapSet(OrderedEvent, "order_status", ORDER_PREPARING))>>

\* The step in which PublishWithContext succeeds for request q.
Accepts(q) == gc[Request(q)].pc = "done" /\ gc'[Request(q)].pc = "close"

\* The step in which request q is answered with `status`.
Answers(q, status) ==
    /\ requests'[q].status = status
    /\ q <= Len(requests) => requests[q].status = 0

\* C23: the order boundary answers 200 exactly when PublishEvent returned
\* nil, and then exactly one event had entered the queue: the request's object
\* with order_status = ORDERED, whatever status the client supplied; when
\* PublishEvent returned an error the answer is an error, as it is when
\* PublishEvent panicked or the body did not bind, and then nothing of the
\* request entered the queue.
C23_CreateOrderInjectsOrdered ==
    /\ [](\A q \in 1..Len(requests) :
             /\ requests[q].status \in {0, 200, 400, 500}
             /\ requests[q].status = 200 <=> requests[q].res = "nil"
             /\ requests[q].res = "err" => requests[q].status = 500
             /\ gc[Request(q)].pc = "close" => requests[q].status = 0)
    /\ [][\A q \in 1..Len(requests') :
             /\ (q <= Len(requests) /\ Accepts(q))
                   => queue' = Append(queue, Marshal(MapSet(requests[q].body.obj,
                                                            "order_status", ORDER_ORDERED)))
             /\ Answers(q, 200)
                   => /\ q <= Len(requests)
                      /\ gc[Request(q)].pc = "close"
                      /\ queue' = queue
             /\ (Answers(q, 400) \/ Answers(q, 500))
                   => /\ q <= Len(requests) => gc[Request(q)].pc # "close"
                      /\ queue' = queue
             /\ (q <= Len(requests) /\ ~Accepts(q) /\ gc[Request(q)] # gc'[Request(q)])
                   => queue' = queue
         ]_vars

\* A request that supplied order_status = DELIVERED was answered with 200
\* before the consumer started, and its order is in the queue as ORDERED,
\* behind the message that was there.
C23_Witness ==
    /\ Len(requests) = 1
    /\ requests[1].status = 200
    /\ requests[1].body = Marshal(MapSet(OrderedEvent, "order_status", ORDER_DELIVERED))
    /\ consumer = "start"
    /\ queue = <<[kind |-> "invalid"], OrderedBody>>

\* C24: the publisher and the consumer hold the same transport
\* connection, the only one established.
C24_SharedConnection ==
    /\ manager.publisher = manager.consumer
    /\ Len(transports) = 1

\* The transports that were closed.
Lost == {t \in 1..Len(transports) : transports[t] = "closed"}

\* C27: reconnection is safe under concurrent callers: no more transports
\* are dialled than were lost, and every open transport is referred to by a
\* manager or is about to be assigned to it by the one caller that dialled
\* it.
C27_ReconnectIsSafe ==
    /\ Len(transports) - Len(Startup.transports) <= Cardinality(Lost)
    /\ \A t \in 1..Len(transports) :
          transports[t] = "open"
             => \/ t \in {manager.publisher, manager.consumer}
                \/ \E c \in Callers : gc[c].pc = "assign" /\ gc[c].conn = t

\* Bodies of orders on their way: the status is ORDERED, PREPARING or PREPARED.
OnItsWay(body) ==
    IF body.kind = "object" /\ "order_status" \in DOMAIN body.obj
    THEN body.obj["order_status"] \in {ORDER_ORDERED, ORDER_PREPARING, ORDER_PREPARED}
    ELSE FALSE

\* The messages of orders on their way that the broker holds: ready in the
\* queue, or in flight to a worker and outstanding.
Messages ==
    Cardinality({i \in 1..Len(queue) : OnItsWay(queue[i])})
    + Cardinality({d \in Tags : OnItsWay(dlv[d].body) /\ Unacked(dlv[d])})

\* The deliveries whose successor is published while their own message is
\* still at the broker: not yet acked, or taken back by the broker, which
\* no later Ack can undo.
Overlapping ==
    {d \in Tags : /\ dlv[d].pub \in {"sent", "nil"}
                  /\ (Unacked(dlv[d]) \/ dlv[d].revoked)}

\* The orders that enter the pipeline in this step: PublishWithContext succeeds
\* for a request.
Created == Cardinality({q \in 1..Len(requests) : Accepts(q)})

\* The orders that reach the end of the pipeline in this step: the Ack of a
\* PREPARED delivery reaches the broker.
Completed ==
    Cardinality({d \in Tags : /\ dlv[d].stage = ORDER_PREPARED
                              /\ dlv'[d].acks > dlv[d].acks
                              /\ ~dlv[d].revoked})

\* C25 (as stated): every order on its way is represented by exactly one
\* message, in the queue or in flight: no step changes the number of messages
\* other than the publish of the order boundary, which begins an order, and
\* the ack that ends one.
C25_ExactlyOneMessagePerOrder ==
    [][Messages' = Messages + Created - Completed]_vars

\* C25 (amended): every order on its way is represented by one message, or by
\* two while its successor is published and its predecessor is still at the
\* broker (not yet acked, or taken back because the consumer's channel went
\* away before the Ack): leaving those predecessors aside, no step changes
\* the number of messages other than the publish of the order boundary,
\* which begins an order, and the Ack that ends one; a stage is acked only
\* after its successor was published, and publishes one successor at most.
C25_OrdersConserved ==
    /\ [][Messages' - Cardinality(Overlapping')
             = Messages - Cardinality(Overlapping) + Created - Completed]_vars
    /\ [](\A d \in Tags :
             (dlv[d].stage \in {ORDER_ORDERED, ORDER_PREPARING} /\ dlv[d].acks = 1)
                => dlv[d].pub = "nil")
    /\ [](Len(pubLog) = Cardinality({d \in Tags : dlv[d].pub \in {"sent", "nil"}}))

\* The successor of an ORDERED delivery is already being processed while the
\* ORDERED delivery itself is not yet acked; an earlier delivery of the same
\* order had failed its publish and was nacked.
C25_Witness ==
    \E d0 \in Tags, d1 \in Tags, d2 \in Tags :
       /\ d0 < d1 /\ d1 < d2
       /\ dlv[d0].pub = "err" /\ dlv[d0].nacks = 1
       /\ dlv[d1].body = dlv[d0].body
       /\ d1 \in Overlapping
       /\ dlv[d2].body = Marshal(dlv[d1].event)
       /\ Messages = 2

\* The registered connection belongs to a client that has disconnected.
Stale == IF PizzaId \in DOMAIN registry THEN hpc[registry[PizzaId]] = "closed" ELSE FALSE

\* Delivery d, of status PREPARED, goes from position `from` to another one.
PreparedLeaves(d, from) ==
    dlv[d].stage = ORDER_PREPARED /\ dlv[d].pc = from /\ dlv'[d].pc # from

\* C26: no step removes a registry entry, also not the end of a handler's
\* read loop; a PREPARED delivery that finds the entry of a disconnected
\* client fails its write, is nacked and is back at the head of the queue,
\* while one that finds the registry empty writes nothing and is acked.
C26_RegistryNeverEvicts ==
    /\ [][DOMAIN registry \subseteq DOMAIN registry']_vars
    /\ [][\A h \in Conns :
             (hpc[h] = "reading" /\ hpc'[h] = "closed") => registry' = registry]_vars
    /\ [][\A d \in Tags :
             /\ (PreparedLeaves(d, "lookup") /\ Stale /\ MapWriters = {})
                   => dlv'[d].socket = registry[PizzaId] /\ dlv'[d].pc = "send"
             /\ (PreparedLeaves(d, "writing") /\ hpc[dlv[d].socket] = "closed")
                   => dlv'[d].sent = "err" /\ dlv'[d].actErr /\ wire' = wire
             /\ (PreparedLeaves(d, "settle") /\ dlv[d].sent = "err")
                   => /\ dlv'[d].nacks = 1 /\ dlv'[d].acks = 0
                      /\ queue' = IF dlv[d].revoked THEN queue
                                  ELSE <<dlv[d].body>> \o queue
                      /\ \E i \in 1..Len(queue') : queue'[i] = dlv[d].body
             /\ (PreparedLeaves(d, "lookup") /\ registry = EmptyMap /\ MapWriters = {})
                   => dlv'[d].sent = "absent" /\ wire' = wire
             /\ (PreparedLeaves(d, "settle") /\ dlv[d].sent = "absent")
                   => /\ dlv'[d].acks = 1 /\ dlv'[d].nacks = 0
                      /\ queue' = queue
      ]_vars

\* The registered client has disconnected; a PREPARED message was delivered
\* twice, failed its write and was nacked both times, and is in the queue
\* again.
C26_Witness ==
    \E d1 \in Tags, d2 \in Tags :
       /\ d1 < d2
       /\ Stale
       /\ dlv[d1].stage = ORDER_PREPARED /\ dlv[d2].body = dlv[d1].body
       /\ dlv[d1].socket = registry[PizzaId] /\ dlv[d2].socket = registry[PizzaId]
       /\ dlv[d1].sent = "err" /\ dlv[d1].nacks = 1
       /\ dlv[d2].sent = "err" /\ dlv[d2].nacks = 1
       /\ queue # <<>>
       /\ queue[1] = dlv[d1].body

====
